---------------------------- MODULE Spec2Model ----------------------------
(***************************************************************************)
(* PeerDrop: the chunked file transfer of src/components/file-transfer-app *)
(* .tsx (FileTransferApp).  One session (the React component) is modelled: *)
(* its state hooks and refs, the PeerJS connection callbacks, the sendFile *)
(* chunk loop (FileReader onload / the completion timer) and the           *)
(* handleIncomingData receiver.  The peer at the other end of the channel  *)
(* runs the same handleIncomingData on what this session sends.            *)
(*                                                                         *)
(* Sizes are counted in units of 512 KiB, so CHUNK_SIZE (1 MiB) is 2 and a *)
(* file of 2.5 MiB has size 5.  A payload is not a byte string but the     *)
(* slice it was cut from: [src, idx, len].                                 *)
(***************************************************************************)
EXTENDS Integers, Sequences, FiniteSets, TLC

\* file-transfer-app.tsx:33  const CHUNK_SIZE = 1024 * 1024 (in 512 KiB units)
CHUNK_SIZE == 2

\* ------------------------------------------------------------------ bounds
\* largest file the user can select, in 512 KiB units
MaxSize == 5
\* sendFile invocations in one run
MaxSends == 2
\* sendFile invocations in one run of the end-to-end specification
MaxTransfers == 2
\* DataConnection objects created in one run
MaxConns == 2
\* inbound messages the environment delivers in one run
MaxInbound == 4

VARIABLES
    connectionStatus,   \* useState, line 38
    remotePeerId,       \* useState, line 37
    selectedFile,       \* useState, line 41
    transferProgress,   \* useState, line 42
    transferStatus,     \* useState, line 43
    receivedFiles,      \* useState, line 50
    connectionRef,      \* useRef, line 55
    fileChunksRef,      \* useRef, line 56
    conns,              \* the DataConnection objects handed to the component
    loops,              \* one entry per sendFile invocation: its closure
                        \* (file, chunks, currentChunk), where it stands (pc)
                        \* and what it has done: the send calls (sent), the
                        \* reads started (reads), the progress set (reported)
    wire,               \* messages the channel has accepted, not yet delivered
    remote,             \* the peer's receiver: the same handleIncomingData
    drawn,              \* number of generateFileId() draws of this session
    inbound             \* number of messages delivered to this session

vars == <<connectionStatus, remotePeerId, selectedFile, transferProgress,
          transferStatus, receivedFiles, connectionRef, fileChunksRef,
          conns, loops, wire, remote, drawn, inbound>>

\* ------------------------------------------------------------------ values
\* useState<File | null>(null): no file selected (a File has a name)
NoFile == [name |-> "", size |-> 0]
\* useRef<any>(null): no connection yet; connections are numbered from 1
NoConn == 0
\* a metadata message without fileId (data.fileId is undefined)
NoFileId == "undefined"

\* a JavaScript number shown as progress: finite, Infinity (x/0) or NaN (0/0)
Num(n) == [kind |-> "number", value |-> n]
Infinity == [kind |-> "Infinity", value |-> 0]
NaN == [kind |-> "NaN", value |-> 0]

Sizes == 0..MaxSize
\* what the file input can hand over: File objects (name, size); one file of
\* each size, named after it
Files == {[name |-> "f" \o ToString(s), size |-> s] : s \in Sizes}

Conns == 1..MaxConns

RECURSIVE SumLen(_)
SumLen(ps) == IF ps = <<>> THEN 0 ELSE Head(ps).len + SumLen(Tail(ps))

Min(a, b) == IF a < b THEN a ELSE b

\* Math.ceil(a / b) for a >= 0; b = 0 gives Infinity or NaN in JavaScript and
\* does not occur: the divisor is CHUNK_SIZE
CeilDiv(a, b) == (a + b - 1) \div b

\* Math.ceil in the place of Math.round
RoundPercentCeil(a, b) ==
    IF b = 0 THEN (IF a = 0 THEN NaN ELSE Infinity)
    ELSE Num((100 * a + b - 1) \div b)
\* Math.floor in the place of Math.round
RoundPercentFloor(a, b) ==
    IF b = 0 THEN (IF a = 0 THEN NaN ELSE Infinity)
    ELSE Num((100 * a) \div b)
\* Math.round((a / b) * 100) for a >= 0, b >= 0: round half up
RoundPercent(a, b) ==
    IF b = 0 THEN (IF a = 0 THEN NaN ELSE Infinity)
    ELSE Num((200 * a + b) \div (2 * b))

\* generateFileId(): a random string of about 22 characters; the n-th draw of
\* one session is distinct from every other draw
generateFileId(who, n) == who \o ToString(n)

\* --------------------------------------------------------------- receiver
\* fileChunksRef.current is an object used as a map; Object.keys lists the
\* string keys in insertion order, so it is a sequence of entries
Keys(buffers) == {buffers[i].id : i \in 1..Len(buffers)}

\* fileChunksRef.current[fileId] = {chunks: [], name, size}: a new key goes
\* last, an existing key keeps its place and gets the new value
PutBuffer(buffers, entry) ==
    IF entry.id \in Keys(buffers)
    THEN [i \in 1..Len(buffers) |->
             IF buffers[i].id = entry.id THEN entry ELSE buffers[i]]
    ELSE Append(buffers, entry)

\* the receiver's part of the session state, as handleIncomingData sees it
RxState(who, status, progress, buffers, files, n) ==
    [who |-> who, transferStatus |-> status, transferProgress |-> progress,
     fileChunks |-> buffers, receivedFiles |-> files, drawn |-> n]

handleMeta(s, data) ==
    LET fileId == IF data.fileId = NoFileId
                  THEN generateFileId(s.who, s.drawn + 1) ELSE data.fileId
    IN [s EXCEPT !.transferStatus = "receiving",
                 !.transferProgress = Num(0),
                 !.drawn = IF data.fileId = NoFileId THEN @ + 1 ELSE @,
                 !.fileChunks = PutBuffer(@, [id |-> fileId, chunks |-> <<>>,
                                              name |-> data.name,
                                              size |-> data.size])]

\* a receiver that sets the progress before it looks for the buffer
handleChunkProgressFirst(s, data) ==
    IF s.fileChunks = <<>>
    THEN [s EXCEPT
           !.transferProgress = RoundPercent(data.chunk + 1, data.chunks)]
    ELSE LET buf == s.fileChunks[1]
             chunks == Append(buf.chunks, data.data)
             done == (data.chunk + 1 = data.chunks)
         IN [s EXCEPT
               !.transferProgress = RoundPercent(data.chunk + 1, data.chunks),
               !.fileChunks = IF done THEN Tail(@)
                              ELSE [@ EXCEPT ![1].chunks = chunks],
               !.receivedFiles = IF done
                                 THEN Append(@, [name |-> buf.name,
                                                 bytes |-> chunks,
                                                 size |-> SumLen(chunks)])
                                 ELSE @,
               !.transferStatus = IF done THEN "complete" ELSE @]

\* the "file-chunk" branch (lines 316-357): without a buffer (no key, line
\* 318, so the test of line 320 fails) nothing is done
handleChunk(s, data) ==
    IF s.fileChunks = <<>> THEN s
    ELSE LET buf == s.fileChunks[1]
             chunks == Append(buf.chunks, data.data)
             done == (data.chunk + 1 = data.chunks)
         IN [s EXCEPT
               !.transferProgress = RoundPercent(data.chunk + 1, data.chunks),
               !.fileChunks = IF done THEN Tail(@)
                              ELSE [@ EXCEPT ![1].chunks = chunks],
               !.receivedFiles = IF done
                                 THEN Append(@, [name |-> buf.name,
                                                 bytes |-> chunks,
                                                 size |-> SumLen(chunks)])
                                 ELSE @,
               !.transferStatus = IF done THEN "complete" ELSE @]

\* a receiver that fails the session on a message of neither kind
handleIncomingDataStrict(s, data) ==
    IF data.type = "file-meta" THEN handleMeta(s, data)
    ELSE IF data.type = "file-chunk" THEN handleChunk(s, data)
    ELSE [s EXCEPT !.transferStatus = "error"]

\* handleIncomingData (lines 299-359): an if / else if on data.type with no
\* final else
handleIncomingData(s, data) ==
    IF data.type = "file-meta" THEN handleMeta(s, data)
    ELSE IF data.type = "file-chunk" THEN handleChunk(s, data)
    ELSE s

\* ----------------------------------------------------------------- sender
\* the object sendFile sends first (lines 240-245)
FileMeta(file, fileId) ==
    [type |-> "file-meta", name |-> file.name, size |-> file.size,
     fileId |-> fileId]

\* const chunks = Math.ceil(selectedFile.size / CHUNK_SIZE), line 248
ChunkCount(file) == CeilDiv(file.size, CHUNK_SIZE)

\* loadNextChunk: the slice [start, end) of the file that the reader reads
SliceStart(currentChunk) == currentChunk * CHUNK_SIZE
\* the slice end without Math.min: the last slice is not cut at the file size
SliceEndUnclamped(file, currentChunk) == SliceStart(currentChunk) + CHUNK_SIZE
SliceEnd(file, currentChunk) ==
    Min(SliceStart(currentChunk) + CHUNK_SIZE, file.size)
loadNextChunk(file, currentChunk) ==
    [src |-> file.name, idx |-> currentChunk,
     len |-> SliceEnd(file, currentChunk) - SliceStart(currentChunk)]

\* the object fileReader.onload sends (lines 255-260)
FileChunk(file, currentChunk, chunks) ==
    [type |-> "file-chunk", data |-> loadNextChunk(file, currentChunk),
     chunk |-> currentChunk, chunks |-> chunks]

\* DataConnection.send of PeerJS: an open connection takes the message; on
\* any other it emits "error" on the connection and returns
Accepts(c) == conns[c].state = "open"

\* the next step of the loop after currentChunk++ (lines 265-276)
AfterChunk(currentChunk, chunks) ==
    IF currentChunk < chunks THEN "reading" ELSE "timer"

\* a sender that starts the reads of the next two chunks at once
ReadsStartedPipelined(currentChunk, chunks) ==
    IF currentChunk < chunks THEN <<currentChunk, currentChunk + 1>> ELSE <<>>
\* the reads fileReader.onload starts after currentChunk++: loadNextChunk()
\* of line 266, one readAsArrayBuffer, only while currentChunk < chunks
ReadsStarted(currentChunk, chunks) ==
    IF currentChunk < chunks THEN <<currentChunk>> ELSE <<>>

\* Send button (lines 539-556) -> sendFile (lines 232-297)
sendFile ==
    /\ connectionStatus = "connected"
    /\ selectedFile # NoFile
    /\ transferStatus = "idle"
    /\ connectionRef # NoConn
    /\ LET c == connectionRef
           fileId == generateFileId("L", drawn + 1)
           meta == FileMeta(selectedFile, fileId)
       IN /\ transferStatus' = IF Accepts(c) THEN "sending" ELSE "error"
          /\ connectionStatus' =
                 IF Accepts(c) THEN connectionStatus ELSE "disconnected"
          /\ transferProgress' = Num(0)
          /\ wire' = IF Accepts(c) THEN Append(wire, meta) ELSE wire
          /\ drawn' = drawn + 1
          /\ loops' = Append(loops,
                 [file |-> selectedFile, chunks |-> ChunkCount(selectedFile),
                  currentChunk |-> 0, pc |-> "reading",
                  sent |-> <<[msg |-> meta, conn |-> c, ok |-> Accepts(c)]>>,
                  reads |-> <<0>>, reported |-> <<>>])
    /\ UNCHANGED <<remotePeerId, selectedFile, receivedFiles, connectionRef,
                   fileChunksRef, conns, remote, inbound>>

\* fileReader.onload of the i-th invocation (lines 253-278).  The test of line
\* 254 always passes: the result is an ArrayBuffer (truthy even when empty)
\* and connectionRef.current is never set back to null
readerOnload(i) ==
    /\ loops[i].pc = "reading"
    /\ connectionRef # NoConn
    /\ LET L == loops[i]
           c == connectionRef
           msg == FileChunk(L.file, L.currentChunk, L.chunks)
           next == L.currentChunk + 1
       IN /\ wire' = IF Accepts(c) THEN Append(wire, msg) ELSE wire
          /\ transferStatus' = IF Accepts(c) THEN transferStatus ELSE "error"
          /\ connectionStatus' =
                 IF Accepts(c) THEN connectionStatus ELSE "disconnected"
          /\ transferProgress' = RoundPercent(next, L.chunks)
          /\ loops' = [loops EXCEPT
                 ![i].currentChunk = next,
                 ![i].pc = AfterChunk(next, L.chunks),
                 ![i].sent = Append(@, [msg |-> msg, conn |-> c,
                                        ok |-> Accepts(c)]),
                 ![i].reads = @ \o ReadsStarted(next, L.chunks),
                 ![i].reported = Append(@, RoundPercent(next, L.chunks))]
    /\ UNCHANGED <<remotePeerId, selectedFile, receivedFiles, connectionRef,
                   fileChunksRef, conns, remote, drawn, inbound>>

\* the read fails: FileReader fires "error", for which sendFile registers no
\* handler (only onload, line 253), so nothing runs
readerError(i) ==
    /\ loops[i].pc = "reading"
    /\ loops' = [loops EXCEPT ![i].pc = "readFailed"]
    /\ UNCHANGED <<connectionStatus, remotePeerId, selectedFile,
                   transferProgress, transferStatus, receivedFiles,
                   connectionRef, fileChunksRef, conns, wire, remote, drawn,
                   inbound>>

\* the setTimeout callback of lines 269-275
completeTimer(i) ==
    /\ loops[i].pc = "timer"
    /\ transferStatus' = "complete"
    /\ loops' = [loops EXCEPT ![i].pc = "done"]
    /\ UNCHANGED <<connectionStatus, remotePeerId, selectedFile,
                   transferProgress, receivedFiles, connectionRef,
                   fileChunksRef, conns, wire, remote, drawn, inbound>>

\* ------------------------------------------------------------ connections
\* a DataConnection of PeerJS: "none" until the object exists, then
\* "connecting", "open" (the "open" event fired) and "closed"
NewConn(incoming) == [state |-> "connecting", incoming |-> incoming]

\* the connection object created next
FreshConn == Cardinality({c \in Conns : conns[c].state # "none"}) + 1

\* peer.on("connection") (line 90) -> handleIncomingConnection (lines 132-134)
handleIncomingConnection ==
    /\ FreshConn \in Conns
    /\ conns' = [conns EXCEPT ![FreshConn] = NewConn(TRUE)]
    /\ connectionRef' = FreshConn
    /\ connectionStatus' = "connecting"
    /\ UNCHANGED <<remotePeerId, selectedFile, transferProgress,
                   transferStatus, receivedFiles, fileChunksRef, loops, wire,
                   remote, drawn, inbound>>

\* the input of line 507: the user types or clears the recipient's id
setRemotePeerId(id) ==
    /\ id # remotePeerId
    /\ remotePeerId' = id
    /\ UNCHANGED <<connectionStatus, selectedFile, transferProgress,
                   transferStatus, receivedFiles, connectionRef,
                   fileChunksRef, conns, loops, wire, remote, drawn, inbound>>

\* Connect button (lines 511-515) -> connectToPeer (lines 169-178)
connectToPeer ==
    /\ remotePeerId # ""
    /\ connectionStatus # "connected"
    /\ FreshConn \in Conns
    /\ conns' = [conns EXCEPT ![FreshConn] = NewConn(FALSE)]
    /\ connectionRef' = FreshConn
    /\ connectionStatus' = "connecting"
    /\ UNCHANGED <<remotePeerId, selectedFile, transferProgress,
                   transferStatus, receivedFiles, fileChunksRef, loops, wire,
                   remote, drawn, inbound>>

\* conn.on("open") (lines 136-143 and 180-186)
connOpen(c) ==
    /\ conns[c].state = "connecting"
    /\ conns' = [conns EXCEPT ![c].state = "open"]
    /\ connectionStatus' = "connected"
    /\ remotePeerId' = IF conns[c].incoming THEN "peer" ELSE remotePeerId
    /\ UNCHANGED <<selectedFile, transferProgress, transferStatus,
                   receivedFiles, connectionRef, fileChunksRef, loops, wire,
                   remote, drawn, inbound>>

\* conn.on("close") (lines 149-155 and 192-198): the peer or the network
\* closed an open connection
connClose(c) ==
    /\ conns[c].state = "open"
    /\ conns' = [conns EXCEPT ![c].state = "closed"]
    /\ connectionStatus' = "disconnected"
    /\ UNCHANGED <<remotePeerId, selectedFile, transferProgress,
                   transferStatus, receivedFiles, connectionRef,
                   fileChunksRef, loops, wire, remote, drawn, inbound>>

\* conn.on("error") (lines 157-166 and 200-209), fired by the network: PeerJS
\* emits "error" when the negotiation or the ICE connection fails and then
\* closes the connection, whose "close" handler sets the same status
connError(c) ==
    /\ conns[c].state \in {"connecting", "open"}
    /\ conns' = [conns EXCEPT ![c].state = "closed"]
    /\ connectionStatus' = "disconnected"
    /\ transferStatus' = "error"
    /\ UNCHANGED <<remotePeerId, selectedFile, transferProgress,
                   receivedFiles, connectionRef, fileChunksRef, loops, wire,
                   remote, drawn, inbound>>

\* Disconnect button (lines 795-801): close() ends the connection, and the
\* "close" handler it fires on an open one sets the same status
disconnect ==
    /\ connectionStatus = "connected"
    /\ conns' = IF /\ connectionRef # NoConn
                   /\ conns[connectionRef].state \in {"connecting", "open"}
                THEN [conns EXCEPT ![connectionRef].state = "closed"]
                ELSE conns
    /\ connectionStatus' = "disconnected"
    /\ remotePeerId' = ""
    /\ UNCHANGED <<selectedFile, transferProgress, transferStatus,
                   receivedFiles, connectionRef, fileChunksRef, loops, wire,
                   remote, drawn, inbound>>

\* ------------------------------------------------------------------- user
\* the file input (lines 530-535) -> handleFileSelect (lines 221-230)
handleFileSelect(file) ==
    /\ connectionStatus = "connected"
    /\ selectedFile' = file
    /\ UNCHANGED <<connectionStatus, remotePeerId, transferProgress,
                   transferStatus, receivedFiles, connectionRef,
                   fileChunksRef, conns, loops, wire, remote, drawn, inbound>>

\* New Transfer / Try Again buttons (lines 576-615) -> resetTransfer
resetTransfer ==
    /\ connectionStatus = "connected"
    /\ transferStatus \in {"complete", "error"}
    /\ transferStatus' = "idle"
    /\ transferProgress' = Num(0)
    /\ selectedFile' = NoFile
    /\ UNCHANGED <<connectionStatus, remotePeerId, receivedFiles,
                   connectionRef, fileChunksRef, conns, loops, wire, remote,
                   drawn, inbound>>

\* ---------------------------------------------------------------- inbound
\* what the peer's transfers put on the channel: a file of 2.5 chunks and a
\* file of one short chunk, their messages in any order, any number of times
EnvFiles == {[name |-> "x", size |-> 2 * CHUNK_SIZE + 1],
             [name |-> "y", size |-> 1]}
InboundMessages ==
    {FileMeta(f, f.name) : f \in EnvFiles}
    \cup UNION {{FileChunk(f, i, ChunkCount(f)) : i \in 0..ChunkCount(f) - 1}
                : f \in EnvFiles}
    \cup {FileMeta(f, NoFileId) : f \in {g \in EnvFiles : g.name = "y"}}
    \cup {[type |-> "hello"]}

\* conn.on("data") (lines 145-147 and 188-190) -> handleIncomingData
connData(c, data) ==
    /\ conns[c].state = "open"
    /\ inbound < MaxInbound
    /\ inbound' = inbound + 1
    /\ LET s == handleIncomingData(
                    RxState("L", transferStatus, transferProgress,
                            fileChunksRef, receivedFiles, drawn), data)
       IN /\ transferStatus' = s.transferStatus
          /\ transferProgress' = s.transferProgress
          /\ fileChunksRef' = s.fileChunks
          /\ receivedFiles' = s.receivedFiles
          /\ drawn' = s.drawn
    /\ UNCHANGED <<connectionStatus, remotePeerId, selectedFile,
                   connectionRef, conns, loops, wire, remote>>

\* the peer's conn.on("data"): the channel delivers in order
deliver ==
    /\ wire # <<>>
    /\ remote' = handleIncomingData(remote, Head(wire))
    /\ wire' = Tail(wire)
    /\ UNCHANGED <<connectionStatus, remotePeerId, selectedFile,
                   transferProgress, transferStatus, receivedFiles,
                   connectionRef, fileChunksRef, conns, loops, drawn, inbound>>

\* ---------------------------------------------------------- specification
Init ==
    /\ connectionStatus = "disconnected"
    /\ remotePeerId = ""
    /\ selectedFile = NoFile
    /\ transferProgress = Num(0)
    /\ transferStatus = "idle"
    /\ receivedFiles = <<>>
    /\ connectionRef = NoConn
    /\ fileChunksRef = <<>>
    /\ conns = [c \in Conns |-> [state |-> "none", incoming |-> FALSE]]
    /\ loops = <<>>
    /\ wire = <<>>
    /\ remote = RxState("R", "idle", Num(0), <<>>, <<>>, 0)
    /\ drawn = 0
    /\ inbound = 0

Next ==
    \/ handleIncomingConnection
    \/ \E id \in {"", "peer"} : setRemotePeerId(id)
    \/ connectToPeer
    \/ \E c \in Conns : connOpen(c)
    \/ \E c \in Conns : connClose(c)
    \/ \E c \in Conns : connError(c)
    \/ disconnect
    \/ \E file \in Files : handleFileSelect(file)
    \/ Len(loops) < MaxSends /\ sendFile
    \/ \E i \in 1..Len(loops) : readerOnload(i)
    \/ \E i \in 1..Len(loops) : readerError(i)
    \/ \E i \in 1..Len(loops) : completeTimer(i)
    \/ resetTransfer
    \/ \E c \in Conns : \E data \in InboundMessages : connData(c, data)

\* the whole session; each claim is stated for the part of it that it
\* concerns (SpecSend, SpecRecv, SpecRx, SpecFrames, SpecE2E, SpecAbort,
\* SpecLive)
Spec == Init /\ [][Next]_vars

\* the files the user picks in the sender specification: an empty file and
\* a file of one chunk and a half
SendFiles == {f \in Files : f.size \in {0, CHUNK_SIZE + 1}}

\* the session as a sender: no message arrives
NextSend ==
    \/ handleIncomingConnection
    \/ \E id \in {"", "peer"} : setRemotePeerId(id)
    \/ connectToPeer
    \/ \E c \in Conns : connOpen(c)
    \/ \E c \in Conns : connClose(c)
    \/ \E c \in Conns : connError(c)
    \/ disconnect
    \/ \E file \in SendFiles : handleFileSelect(file)
    \/ Len(loops) < MaxSends /\ sendFile
    \/ \E i \in 1..Len(loops) : readerOnload(i)
    \/ \E i \in 1..Len(loops) : readerError(i)
    \/ \E i \in 1..Len(loops) : completeTimer(i)
    \/ resetTransfer

SpecSend == Init /\ [][NextSend]_vars

\* the session as a receiver: the user selects and sends nothing
NextRecv ==
    \/ handleIncomingConnection
    \/ \E id \in {"", "peer"} : setRemotePeerId(id)
    \/ connectToPeer
    \/ \E c \in Conns : connOpen(c)
    \/ \E c \in Conns : connClose(c)
    \/ \E c \in Conns : connError(c)
    \/ disconnect
    \/ resetTransfer
    \/ \E c \in Conns : \E data \in InboundMessages : connData(c, data)

SpecRecv == Init /\ [][NextRecv]_vars

\* end to end: a session whose connection is open sends to its peer, which
\* receives what the channel delivers; nothing else happens to the channel
InitE2E ==
    /\ connectionStatus = "connected"
    /\ remotePeerId = "peer"
    /\ selectedFile = NoFile
    /\ transferProgress = Num(0)
    /\ transferStatus = "idle"
    /\ receivedFiles = <<>>
    /\ connectionRef = 1
    /\ fileChunksRef = <<>>
    /\ conns = [c \in Conns |->
                  IF c = 1 THEN [state |-> "open", incoming |-> FALSE]
                  ELSE [state |-> "none", incoming |-> FALSE]]
    /\ loops = <<>>
    /\ wire = <<>>
    /\ remote = RxState("R", "idle", Num(0), <<>>, <<>>, 0)
    /\ drawn = 0
    /\ inbound = 0

NextE2E ==
    \/ \E file \in Files : handleFileSelect(file)
    \/ Len(loops) < MaxTransfers /\ sendFile
    \/ \E i \in 1..Len(loops) : readerOnload(i)
    \/ \E i \in 1..Len(loops) : readerError(i)
    \/ \E i \in 1..Len(loops) : completeTimer(i)
    \/ resetTransfer
    \/ deliver

SpecE2E == InitE2E /\ [][NextE2E]_vars

\* the metadata and chunk messages among what the peer puts on the channel
InboundTransfers ==
    {m \in InboundMessages : m.type \in {"file-meta", "file-chunk"}}

\* the session as the receiver of one open connection: metadata and chunks
\* arrive in any order, and the user resets after a transfer
NextRx ==
    \/ \E data \in InboundTransfers : connData(1, data)
    \/ resetTransfer

SpecRx == InitE2E /\ [][NextRx]_vars

\* messages of neither kind: an object with another type, and a value whose
\* type property is undefined (an object without it, a string, a number)
Unrecognized == {[type |-> "hello"], [type |-> "undefined"]}

\* what one sendFile of a file hands to the channel: the metadata, then the
\* chunks; a zero-byte file still gives one chunk
TransferMessages(file, fileId) ==
    <<FileMeta(file, fileId)>> \o
    [k \in 1..(IF ChunkCount(file) = 0 THEN 1 ELSE ChunkCount(file)) |->
        FileChunk(file, k - 1, ChunkCount(file))]

\* the sequence with m put in after its first pos elements
InsertAt(seq, pos, m) ==
    SubSeq(seq, 1, pos) \o <<m>> \o SubSeq(seq, pos + 1, Len(seq))

\* a channel that carries the messages of one transfer (its metadata with
\* or without a fileId) and, somewhere before the last of them, one message
\* of neither kind
Frames ==
    UNION {{InsertAt(TransferMessages(f, id), pos, u) :
               pos \in 0..Len(TransferMessages(f, id)) - 1,
               u \in Unrecognized}
           : f \in Files, id \in {generateFileId("L", 1), NoFileId}}

InitFrames ==
    /\ connectionStatus = "connected"
    /\ remotePeerId = "peer"
    /\ selectedFile = NoFile
    /\ transferProgress = Num(0)
    /\ transferStatus = "idle"
    /\ receivedFiles = <<>>
    /\ connectionRef = 1
    /\ fileChunksRef = <<>>
    /\ conns = [c \in Conns |->
                  IF c = 1 THEN [state |-> "open", incoming |-> FALSE]
                  ELSE [state |-> "none", incoming |-> FALSE]]
    /\ loops = <<>>
    /\ wire \in Frames
    /\ remote = RxState("R", "idle", Num(0), <<>>, <<>>, 0)
    /\ drawn = 0
    /\ inbound = 0

\* the peer's receiver handles what the channel carries, in order
SpecFrames == InitFrames /\ [][deliver]_vars

\* the files the user picks in the reconnect specification: one short chunk,
\* and a chunk and a half
AbortFiles == {f \in Files : f.size \in {1, CHUNK_SIZE + 1}}

\* end to end over a channel that can close or fail, after which the same
\* peer connects again: the peer's receiver is the one component instance,
\* with the one fileChunksRef, on every connection
NextAbort ==
    \/ \E file \in AbortFiles : handleFileSelect(file)
    \/ Len(loops) < MaxTransfers /\ sendFile
    \/ \E i \in 1..Len(loops) : readerOnload(i)
    \/ \E i \in 1..Len(loops) : completeTimer(i)
    \/ resetTransfer
    \/ deliver
    \/ \E c \in Conns : connClose(c)
    \/ \E c \in Conns : connError(c)
    \/ handleIncomingConnection
    \/ \E c \in Conns : connOpen(c)

SpecAbort == InitE2E /\ [][NextAbort]_vars

\* end to end with every read succeeding, under the scheduling the runtime
\* gives: a read that was started ends and fires onload, a timer that was set
\* fires, and the channel delivers what it has accepted
NextLive ==
    \/ \E file \in Files : handleFileSelect(file)
    \/ Len(loops) < MaxTransfers /\ sendFile
    \/ \E i \in 1..Len(loops) : readerOnload(i)
    \/ \E i \in 1..Len(loops) : completeTimer(i)
    \/ resetTransfer
    \/ deliver

Fairness ==
    /\ WF_vars(\E i \in 1..Len(loops) : readerOnload(i))
    /\ WF_vars(\E i \in 1..Len(loops) : completeTimer(i))
    /\ WF_vars(deliver)

SpecLive == InitE2E /\ [][NextLive]_vars /\ Fairness

\* ----------------------------------------------------------------- claims
\* what one sendFile invocation handed to the channel after the metadata
ChunksSent(L) == SubSeq(L.sent, 2, Len(L.sent))
\* the invocation has handed over its last chunk
Finished(L) == L.pc \in {"timer", "done"}
\* ceil(S / C) by its definition: the least n with n * C >= S
Ceil(S, C) == CHOOSE n \in 0..S : n * C >= S /\ (n = 0 \/ (n - 1) * C < S)
PayloadSum(L) ==
    SumLen([k \in 1..Len(ChunksSent(L)) |-> ChunksSent(L)[k].msg.data])

\* C1: every sendFile invocation hands the channel one metadata message
\* first, then the chunks with indices 0..chunkCount-1 in increasing order,
\* each exactly once, and no other chunk.
C1_MetaThenChunks ==
    \A i \in 1..Len(loops) :
        LET L == loops[i]
        IN /\ L.sent[1].msg.type = "file-meta"
           /\ \A k \in 2..Len(L.sent) :
                 /\ L.sent[k].msg.type = "file-chunk"
                 /\ L.sent[k].msg.chunk = k - 2
                 /\ L.sent[k].msg.chunk \in 0..(L.sent[k].msg.chunks - 1)
           /\ Finished(L) => Len(ChunksSent(L)) = L.chunks

C3_ZeroByteCompletes ==
    (/\ Len(loops) = 1
     /\ loops[1].file.size = 0
     /\ loops[1].pc = "done"
     /\ wire = <<>>)
    => /\ Len(ChunksSent(loops[1])) = 1
       /\ ChunksSent(loops[1])[1].msg.chunk = 0
       /\ ChunksSent(loops[1])[1].msg.data.len = 0
       /\ ChunksSent(loops[1])[1].msg.chunks = 1
       /\ transferStatus \in {"complete", "idle"}
       /\ transferStatus = "complete" => transferProgress = Num(100)
       /\ remote.transferStatus = "complete"
       /\ remote.transferProgress = Num(100)
       /\ Len(remote.receivedFiles) = 1
       /\ remote.receivedFiles[1].name = loops[1].file.name
       /\ remote.receivedFiles[1].size = 0

\* the chunk of an active transfer that is expected next
ExpectedIndex == Len(fileChunksRef[1].chunks)

\* C4: a chunk that arrives for an active transfer with an index other than
\* the expected next one fails the session, discards the buffer and emits no
\* file.
C4_OutOfOrderFails ==
    [][\A c \in Conns : \A data \in InboundMessages :
          (/\ connData(c, data)
           /\ data.type = "file-chunk"
           /\ fileChunksRef # <<>>
           /\ data.chunk # ExpectedIndex)
          => /\ transferStatus' = "error"
             /\ fileChunksRef' = <<>>
             /\ receivedFiles' = receivedFiles]_vars

\* C5: metadata of a transfer B that arrives while transfer A's buffer is
\* active is rejected: no buffer for B, A's buffer unchanged.
C5_SecondMetaRejected ==
    [][\A c \in Conns : \A data \in InboundMessages :
          (/\ connData(c, data)
           /\ data.type = "file-meta"
           /\ fileChunksRef # <<>>
           /\ data.fileId \notin Keys(fileChunksRef))
          => fileChunksRef' = fileChunksRef]_vars

\* C6: the receiver holds at most one reassembly buffer.
C6_AtMostOneBuffer == Len(fileChunksRef) <= 1

\* C7: the status moves only along Idle -> Sending -> Complete|Failed and
\* Idle -> Receiving -> Complete|Failed; Complete and Failed are left only
\* by the reset, which is the only way back to Idle.
StatusEdges ==
    {<<"idle", "sending">>, <<"idle", "receiving">>,
     <<"sending", "complete">>, <<"sending", "error">>,
     <<"receiving", "complete">>, <<"receiving", "error">>}
C7_StatusMachine ==
    [][\/ transferStatus' = transferStatus
       \/ <<transferStatus, transferStatus'>> \in StatusEdges
       \/ resetTransfer]_vars

\* C8: once the session is Complete or Failed, a further inbound chunk
\* changes neither status nor progress, appends nothing and emits no file.
C8_TerminalIgnoresChunks ==
    [][\A c \in Conns : \A data \in InboundMessages :
          (/\ connData(c, data)
           /\ data.type = "file-chunk"
           /\ transferStatus \in {"complete", "error"})
          => UNCHANGED <<transferStatus, transferProgress, fileChunksRef,
                         receivedFiles>>]_vars

\* C9: when the channel closes, the connection errors or the user
\* disconnects while a transfer is in progress, the session becomes Failed
\* and the reassembly buffer is released at once.
C9_AbortFailsAndReleases ==
    [][((\E c \in Conns : connClose(c) \/ connError(c)) \/ disconnect)
       /\ transferStatus \in {"sending", "receiving"}
       => /\ transferStatus' = "error"
          /\ fileChunksRef' = <<>>]_vars

\* C10: after a failed read the send stops and the session is Failed
\* (until it is reset): it does not stay Sending and is never Complete.
C10_ReadFailureFails ==
    \A i \in 1..Len(loops) :
        (loops[i].pc = "readFailed" /\ i = Len(loops))
            => transferStatus \in {"error", "idle"}

\* C11: a send started while the connection is not open (never opened, or
\* closed after it was open) fails: nothing is handed to the channel and no
\* transfer is started (no chunk loop begins).
C11_NoActiveChannel ==
    [][(sendFile /\ ~Accepts(connectionRef))
          => /\ wire' = wire
             /\ Len(loops') = Len(loops)]_vars

\* the i-th send of the session has just been started: its metadata is all
\* it has handed over
Started(i) == Len(loops) = i /\ Len(loops[i].sent) = 1
\* the i-th send has ended with the sender Complete
SenderComplete(i) ==
    /\ Len(loops) = i
    /\ loops[i].pc = "done"
    /\ transferStatus = "complete"
\* the receiver is Complete and the i-th file it emitted is the i-th sent
ReceiverComplete(i) ==
    /\ Len(loops) >= i
    /\ remote.transferStatus = "complete"
    /\ Len(remote.receivedFiles) = i
    /\ remote.receivedFiles[i].name = loops[i].file.name
    /\ remote.receivedFiles[i].size = loops[i].file.size

\* C12: when no read fails and the channel stays open and delivers in order,
\* every send that is started leads to the sender being Complete and to the
\* receiver being Complete with one file emitted for the transfer.
C12_TransferCompletes ==
    \A i \in 1..MaxTransfers :
        /\ Started(i) ~> SenderComplete(i)
        /\ Started(i) ~> ReceiverComplete(i)

\* the file a payload was cut from
FileOf(payload) == CHOOSE f \in Files : f.name = payload.src
\* the payloads of the chunks 0..chunkCount-1 of a file, in index order
AllPayloads(f) ==
    [k \in 1..Ceil(f.size, CHUNK_SIZE) |->
        [src |-> f.name, idx |-> k - 1,
         len |-> IF k < Ceil(f.size, CHUNK_SIZE) THEN CHUNK_SIZE
                 ELSE f.size - CHUNK_SIZE * (k - 1)]]

\* C13: when the last chunk (index chunkCount-1) of a transfer reaches the
\* receiver over the ordered channel, the receiver emits exactly one file
\* with the name of the transfer's metadata, the payloads of the chunks
\* 0..chunkCount-1 in index order and the declared size, holds no buffer
\* afterwards and is Complete.
C13_LastChunkCompletes ==
    [][(/\ deliver
        /\ Head(wire).type = "file-chunk"
        /\ Head(wire).chunk = Head(wire).chunks - 1)
          => LET f == FileOf(Head(wire).data)
             IN /\ remote.receivedFiles' =
                       Append(remote.receivedFiles,
                              [name |-> f.name, bytes |-> AllPayloads(f),
                               size |-> f.size])
                /\ remote.fileChunks' = <<>>
                /\ remote.transferStatus' = "complete"]_vars

\* the last file the receiver emitted
LastReceived == remote.receivedFiles[Len(remote.receivedFiles)]

\* every send of a file of 2.5 chunk sizes: 3 chunks of 1, 1 and 0.5 chunk
\* sizes, only the third being the last, the given progress values after
\* them, and once all is delivered a file of exactly the size sent
EndToEnd25(progress) ==
    \A i \in 1..Len(loops) :
        LET L == loops[i]
            cs == ChunksSent(L)
            lens == <<CHUNK_SIZE, CHUNK_SIZE, CHUNK_SIZE \div 2>>
        IN L.file.size = 2 * CHUNK_SIZE + CHUNK_SIZE \div 2
           => /\ Len(cs) <= 3
              /\ Finished(L) => Len(cs) = 3
              /\ \A k \in 1..Len(cs) :
                    /\ cs[k].msg.chunk = k - 1
                    /\ cs[k].msg.data.len = lens[k]
                    /\ (cs[k].msg.chunk = cs[k].msg.chunks - 1) <=> (k = 3)
              /\ Len(L.reported) = Len(cs)
              /\ \A k \in 1..Len(L.reported) : L.reported[k] = progress[k]
              /\ (i = Len(loops) /\ Finished(L) /\ wire = <<>>)
                    => /\ remote.receivedFiles # <<>>
                       /\ LastReceived.size = L.file.size
                       /\ SumLen(LastReceived.bytes) = L.file.size
                       /\ remote.transferProgress = progress[3]

\* C14 (as stated): sending a file of 2.5 chunk sizes yields exactly 3
\* chunks of 1, 1 and 0.5 chunk sizes, only the third the last, the progress
\* values 34, 67, 100, and a received file of exactly the file's size.
C14_EndToEnd25As34 == EndToEnd25(<<Num(34), Num(67), Num(100)>>)

\* C14 (amended): the same with the progress values 33, 67, 100:
\* Math.round(100 / 3) is 33.
C14_EndToEnd25 == EndToEnd25(<<Num(33), Num(67), Num(100)>>)

\* a file of 2.5 chunk sizes was sent to the end and delivered
C14_Witness ==
    /\ loops # <<>>
    /\ loops[Len(loops)].file.size = 2 * CHUNK_SIZE + CHUNK_SIZE \div 2
    /\ loops[Len(loops)].pc = "done"
    /\ wire = <<>>
    /\ remote.receivedFiles # <<>>
    /\ remote.transferStatus = "complete"

\* C15: the reset leaves the session Idle with progress 0, no reassembly
\* buffer, no file selected and no file being read.
C15_ResetClears ==
    [][resetTransfer
          => /\ transferStatus' = "idle"
             /\ transferProgress' = Num(0)
             /\ fileChunksRef' = <<>>
             /\ selectedFile' = NoFile
             /\ \A i \in 1..Len(loops') : loops'[i].pc # "reading"]_vars

\* round(100 * a / n) by its definition: for 0 <= a <= n and n > 0 the
\* integer r with r - 1/2 <= 100 * a / n < r + 1/2; for n = 0 the quotient is
\* a division by zero, which evaluates to Infinity
Round100(a, n) ==
    IF n = 0 THEN Infinity
    ELSE Num(CHOOSE r \in 0..100 :
                 /\ 2 * r * n <= 200 * a + n
                 /\ 200 * a + n < 2 * (r + 1) * n)

ReadsEnded(L) ==
    Len(ChunksSent(L)) + (IF L.pc = "readFailed" THEN 1 ELSE 0)
\* the reads that were started and have not ended
Outstanding(L) == Len(L.reads) - ReadsEnded(L)

\* C17: within one transfer at most one chunk read is outstanding, the
\* reads are started in index order, and the read of chunk i+1 is started
\* only after chunk i has been handed to the channel.
C17_Serialized ==
    \A i \in 1..Len(loops) :
        LET L == loops[i]
        IN /\ Outstanding(L) \in {0, 1}
           /\ Outstanding(L) = 1 <=> L.pc = "reading"
           /\ \A k \in 1..Len(L.reads) :
                 /\ L.reads[k] = k - 1
                 /\ k > 1 => /\ Len(ChunksSent(L)) >= k - 1
                             /\ ChunksSent(L)[k - 1].msg.chunk = k - 2

\* the read of chunk 1 is outstanding, chunk 0 has been handed over
C17_Witness ==
    \E i \in 1..Len(loops) :
        /\ loops[i].pc = "reading"
        /\ loops[i].reads = <<0, 1>>
        /\ Len(ChunksSent(loops[i])) = 1
        /\ loops[i].chunks = 3

\* C18: the sender's session becomes Complete only after every chunk
\* 0..chunkCount-1 of the transfer has been handed to the channel and no send
\* of the transfer raised a local fault.
C18_CompleteAfterAllSent ==
    [][\A i \in 1..Len(loops) :
          completeTimer(i)
             => LET cs == ChunksSent(loops[i])
                IN /\ \A n \in 0..(loops[i].chunks - 1) :
                         \E k \in 1..Len(cs) : cs[k].msg.chunk = n
                   /\ \A k \in 1..Len(loops[i].sent) :
                         loops[i].sent[k].ok]_vars

\* the sendFile invocations whose chunk loop is running: a read is under way
RunningLoops == {i \in 1..Len(loops) : loops[i].pc = "reading"}

\* C19: at most one transfer is in flight in a session: never two sender
\* chunk loops running at once, and never a running sender loop together
\* with a reassembly buffer.
C19_SingleTransfer ==
    /\ Cardinality(RunningLoops) <= 1
    /\ RunningLoops # {} => fileChunksRef = <<>>

\* C20: a chunk that arrives while the receiver holds no reassembly buffer
\* changes neither status nor progress, creates no buffer and emits no file.
C20_ChunkWithoutBufferIgnored ==
    [][\A c \in Conns : \A data \in InboundMessages :
          (/\ connData(c, data)
           /\ data.type = "file-chunk"
           /\ fileChunksRef = <<>>)
          => UNCHANGED <<transferStatus, transferProgress, fileChunksRef,
                         receivedFiles>>]_vars

\* the one message that has arrived left no buffer: it was a chunk with no
\* metadata before it (every message is a metadata or a chunk message)
C20_Witness ==
    /\ inbound = 1
    /\ fileChunksRef = <<>>
    /\ transferStatus = "idle"
    /\ transferProgress = Num(0)
    /\ receivedFiles = <<>>

\* C21: an inbound message that is neither a metadata nor a chunk message
\* changes nothing (status, progress, buffers, received files), so the
\* messages after it are handled as if it had not arrived.
C21_UnrecognizedDropped ==
    [][/\ (deliver /\ Head(wire).type \notin {"file-meta", "file-chunk"})
             => remote' = remote
       /\ \A c \in Conns : \A data \in InboundMessages :
             (connData(c, data)
              /\ data.type \notin {"file-meta", "file-chunk"})
             => UNCHANGED <<transferStatus, transferProgress, fileChunksRef,
                            receivedFiles, drawn>>]_vars

\* a file of 2.5 chunks was received whole over a channel that carried a
\* message of neither kind before its last chunk
C21_Witness ==
    /\ wire = <<>>
    /\ remote.transferStatus = "complete"
    /\ remote.fileChunks = <<>>
    /\ Len(remote.receivedFiles) = 1
    /\ remote.receivedFiles[1].name = "f5"
    /\ remote.receivedFiles[1].bytes =
           AllPayloads([name |-> "f5", size |-> 2 * CHUNK_SIZE + 1])

\* C22: every chunk of a transfer that a connection takes is taken by the
\* connection that took the transfer's metadata, also when
\* connectionRef.current is replaced while the chunk loop runs: no chunk of
\* the running transfer goes out on the new connection.
C22_ChunksOnMetaConnection ==
    \A i \in 1..Len(loops) :
        \A k \in 2..Len(loops[i].sent) :
            loops[i].sent[k].ok
               => loops[i].sent[k].conn = loops[i].sent[1].conn

\* the buffer the receiver created last: with one fileId per sendFile, the
\* buffer of the metadata it received most recently
LatestMeta == remote.fileChunks[Len(remote.fileChunks)]

\* C23: every file the receiver emits carries the name of the metadata it
\* received most recently and holds only payloads of that transfer, also
\* when an earlier transfer was cut by a closed or failed channel.
C23_FileOfLatestMetadata ==
    [][(deliver /\ Len(remote.receivedFiles') > Len(remote.receivedFiles))
          => LET f == remote.receivedFiles'[Len(remote.receivedFiles')]
             IN /\ f.name = LatestMeta.name
                /\ \A k \in 1..Len(f.bytes) :
                      f.bytes[k].src = LatestMeta.name]_vars

=============================================================================
